---------------------------- MODULE Spec2Model ----------------------------
(***************************************************************************)
(* Nagel-Schreckenberg traffic simulation on a ring road: the Car agent    *)
(* (agents.py) and the Road that owns and steps the cars (environment.py). *)
(*                                                                         *)
(* Real numbers are modelled exactly: a probability is a number of         *)
(* halves (0, 1/2, 1), np.random.rand() returns one of the values 0 and     *)
(* 1/2 of [0,1), and a float metric                                        *)
(* (mean, density, flow) is the fraction <<numerator, denominator>>, with  *)
(* denominator 0 standing for NaN (the mean of an empty list).             *)
(***************************************************************************)
EXTENDS Integers, Sequences, FiniteSets

VARIABLES
    road,                  \* "ok": a Road exists; "ValueError": Road.__init__ raised;
                           \* "ZeroDivisionError": Road.step raised;
                           \* "none": a Car used on its own, without a Road;
                           \* "unbuilt": no Road or Car has been constructed yet
    length,                \* Road.length (road_length of Car.update without a Road)
    n_cars,                \* Road.n_cars
    cars,                  \* Road.cars: sequence of Car records, in list order
    time,                  \* Road.time
    avg_velocity_history,  \* Road.avg_velocity_history
    density_history,       \* Road.density_history
    flow_history,          \* Road.flow_history
    has_accident,          \* hasattr(road, 'accident_timer')
    accident_location,     \* Road.accident_location
    accident_duration,     \* Road.accident_duration
    accident_timer,        \* Road.accident_timer
    n_steps,               \* number of calls the driving loop makes (range(n_steps))
    op,                    \* the last operation called
    args,                  \* the arguments of the last operation
    forced,                \* ids of the cars whose velocity the last operation overwrote with 0
    ret,                   \* the value the last operation returned
    rng,                   \* the state of numpy's global generator, None while the draws are
                           \* left open
    runs                   \* the calls of run_simulation made so far, with what they returned

vars == <<road, length, n_cars, cars, time, avg_velocity_history, density_history,
          flow_history, has_accident, accident_location, accident_duration,
          accident_timer, n_steps, op, args, forced, ret, rng, runs>>

roadVars == <<road, length, n_cars, cars, time, avg_velocity_history, density_history,
              flow_history>>

accidentVars == <<has_accident, accident_location, accident_duration, accident_timer>>

driverVars == <<rng, runs>>

---------------------------------------------------------------------------
(* Bounds of the model *)

MaxLength == 5        \* small roads have 1..MaxLength cells
MaxCars == 3          \* requested vehicle counts 0..MaxCars
MaxVmax == 2          \* v_max of the cars of a small road, 0..MaxVmax
MaxSteps == 3         \* steps run on a small or a long road
MaxDuration == 2      \* incident durations 0..MaxDuration
MaxAcceleration == 2  \* acceleration of a Car used on its own, 1..MaxAcceleration
MaxGap == 4           \* distance_to_next passed to a Car used on its own, 0..MaxGap
LargeGap == 100       \* and LargeGap, a gap that never constrains the car
FreeSteps == 6        \* steps run on the single-vehicle road
FreeLength == 10      \* single-vehicle roads have FreeLength..FreeLength+1 cells
FarLength == 44       \* long roads have FarLength cells
FarWindow == 1        \* cars of a long road start at most FarWindow cells from the
                      \* edge of the zone of an incident at cell 0, or beside cell 0
DriverLength == 4     \* road_length of the experiments of simulation.py
DriverCars == 2       \* n_cars of the experiments, 1..DriverCars
DriverSteps == 2      \* n_steps of the experiments, 0..DriverSteps
MaxSeed == 1          \* seeds 0..MaxSeed
MaxRuns == 2          \* calls of run_simulation made one after the other

(* Program constants *)

DefaultVmax == 5          \* v_max=5
DefaultAcceleration == 1  \* acceleration=1
AccidentRadius == 20      \* distance_to_accident < 20
DefaultBrakeProb == 1     \* brake_prob=0.3: brakes on the draw 0 and not on the draw 1/2,
                          \* as the probability 1/2 does

None == "None"

\* the number 0
Zero == <<0, 1>>

---------------------------------------------------------------------------
(* Arithmetic helpers *)

Min(a, b) == IF a <= b THEN a ELSE b

Max(a, b) == IF a >= b THEN a ELSE b

Abs(a) == IF a < 0 THEN -a ELSE a

RECURSIVE Sum(_)
Sum(s) == IF s = <<>> THEN 0 ELSE Head(s) + Sum(Tail(s))

\* np.mean of a list of integers
Mean(s) == <<Sum(s), Len(s)>>

\* a / b of two integers, b # 0
Div(a, b) == <<a, b>>

\* the product of two floats
Mul(x, y) == <<x[1] * y[1], x[2] * y[2]>>

---------------------------------------------------------------------------
(* agents.py: Car *)

\* brake_prob, in halves: 0, 1/2 and 1
BrakeProbs == {0, 1, 2}

\* the values np.random.rand() returns, in halves: 0 and 1/2 of [0,1)
RandValues == {0, 1}

\* Car.__init__
NewCar(id, position, v_max, acceleration, brake_prob) ==
    [id |-> id,
     position |-> position,
     velocity |-> 0,
     v_max |-> v_max,
     acceleration |-> acceleration,
     brake_prob |-> brake_prob,
     velocity_history |-> <<>>,
     position_history |-> <<>>]

\* mutant of Accelerate: the velocity is not capped by v_max
AccelerateUncapped(velocity, acceleration, v_max) == velocity + acceleration

\* Step 1: accelerate
Accelerate(velocity, acceleration, v_max) == Min(velocity + acceleration, v_max)

\* mutant of AvoidCollision: the clamp keeps no cell of distance
AvoidCollisionNoBuffer(velocity, distance_to_next) ==
    IF distance_to_next <= velocity THEN Max(distance_to_next, 0) ELSE velocity

\* mutant of AvoidCollision: a car as fast as its gap is not slowed down
AvoidCollisionStrict(velocity, distance_to_next) ==
    IF distance_to_next < velocity THEN Max(distance_to_next - 1, 0) ELSE velocity

\* Step 2: collision avoidance
AvoidCollision(velocity, distance_to_next) ==
    IF distance_to_next <= velocity THEN Max(distance_to_next - 1, 0) ELSE velocity

\* Step 3: random braking, rand the value np.random.rand() returned
RandomBrake(velocity, rand, brake_prob) ==
    IF rand < brake_prob THEN Max(velocity - 1, 0) ELSE velocity

\* mutant of Move: the position does not wrap
MoveUnwrapped(position, velocity, road_length) == position + velocity

\* Step 4: move
Move(position, velocity, road_length) == (position + velocity) % road_length

\* mutant of UpdateVelocity: random braking comes before collision avoidance
UpdateVelocityBrakeFirst(car, distance_to_next, rand) ==
    AvoidCollision(RandomBrake(Accelerate(car.velocity, car.acceleration, car.v_max),
                               rand, car.brake_prob),
                   distance_to_next)

\* the velocity Car.update leaves in car
UpdateVelocity(car, distance_to_next, rand) ==
    RandomBrake(AvoidCollision(Accelerate(car.velocity, car.acceleration, car.v_max),
                               distance_to_next),
                rand, car.brake_prob)

\* Car.update
CarUpdate(car, distance_to_next, road_length, rand) ==
    LET v == UpdateVelocity(car, distance_to_next, rand)
        p == Move(car.position, v, road_length)
    IN [car EXCEPT !.velocity = v,
                   !.position = p,
                   !.velocity_history = Append(@, v),
                   !.position_history = Append(@, p)]

---------------------------------------------------------------------------
(* environment.py: Road *)

\* mutant of Placements: the cells are sampled with replacement
PlacementsWithRepeats(L, n) ==
    {s \in [1..n -> 0..(L - 1)] : \A i \in 1..(n - 1) : s[i] <= s[i + 1]}

\* sorted(np.random.choice(range(length), size=n_cars, replace=False)): the sorted
\* lists of n pairwise distinct cells; none exists when n exceeds the number of cells
Placements(L, n) ==
    {s \in [1..n -> 0..(L - 1)] : \A i \in 1..(n - 1) : s[i] < s[i + 1]}

\* [Car(pos, v_max=v_max, brake_prob=brake_prob) for pos in positions]
NewCars(positions, v_max, brake_prob) ==
    [i \in 1..Len(positions) |->
        NewCar(i, positions[i], v_max, DefaultAcceleration, brake_prob)]

Front(s) == SubSeq(s, 1, Len(s) - 1)

Last(s) == s[Len(s)]

\* puts car behind every car of the sorted list s whose position is not larger
RECURSIVE InsertByPosition(_, _)
InsertByPosition(s, car) ==
    IF s = <<>> THEN <<car>>
    ELSE IF Last(s).position <= car.position THEN Append(s, car)
    ELSE Append(InsertByPosition(Front(s), car), Last(s))

\* self.cars.sort(key=lambda c: c.position): a stable sort
RECURSIVE SortCars(_)
SortCars(s) ==
    IF s = <<>> THEN <<>> ELSE InsertByPosition(SortCars(Front(s)), Last(s))

\* mutant of InAccidentZone: a car exactly 20 cells away is stopped too
InAccidentZoneInclusive(position, location, L) ==
    Min(Abs(position - location), L - Abs(position - location)) <= AccidentRadius

\* the distance of a position to the incident, around the ring
DistanceToAccident(position, location, L) ==
    Min(Abs(position - location), L - Abs(position - location))

InAccidentZone(position, location, L) ==
    DistanceToAccident(position, location, L) < AccidentRadius

\* mutant of AccidentActive: the incident lasts one step longer
AccidentActiveInclusive(has, timer, duration) ==
    IF has THEN timer <= duration ELSE FALSE

\* the test of _apply_accident_effects: an incident exists and its timer has not run out
AccidentActive(has, timer, duration) ==
    IF has THEN timer < duration ELSE FALSE

\* mutant of ApplyAccidentEffects: the velocity 0 of a stopped car is recorded
ApplyAccidentEffectsRecording(cs, has, location, duration, timer, L) ==
    IF AccidentActive(has, timer, duration)
    THEN [i \in 1..Len(cs) |->
            IF InAccidentZone(cs[i].position, location, L)
            THEN [cs[i] EXCEPT !.velocity = 0, !.velocity_history = Append(@, 0)]
            ELSE cs[i]]
    ELSE cs

\* the cars as _apply_accident_effects leaves them
ApplyAccidentEffects(cs, has, location, duration, timer, L) ==
    IF AccidentActive(has, timer, duration)
    THEN [i \in 1..Len(cs) |->
            IF InAccidentZone(cs[i].position, location, L)
            THEN [cs[i] EXCEPT !.velocity = 0]
            ELSE cs[i]]
    ELSE cs

\* the ids of the cars _apply_accident_effects stops
ForcedCars(cs, has, location, duration, timer, L) ==
    IF AccidentActive(has, timer, duration)
    THEN {cs[i].id : i \in {j \in 1..Len(cs) : InAccidentZone(cs[j].position, location, L)}}
    ELSE {}

\* the accident timer as _apply_accident_effects leaves it
NextAccidentTimer(has, timer, duration) ==
    IF AccidentActive(has, timer, duration) THEN timer + 1 ELSE timer

\* mutant of Distances: the car after the last one is not the first one, the last
\* car has the whole ring ahead
DistancesNoWrap(cs, L) ==
    [i \in 1..Len(cs) |->
        IF i = Len(cs) THEN L ELSE (cs[i + 1].position - cs[i].position) % L]

\* the distances Road.step computes from the sorted cars
Distances(cs, L) ==
    [i \in 1..Len(cs) |->
        LET next_idx == (i % Len(cs)) + 1
        IN (cs[next_idx].position - cs[i].position) % L]

\* the cars from the i-th on updated one after the other, each with the distance to
\* the car ahead as the updates before it left it
RECURSIVE UpdateInTurnFrom(_, _, _, _)
UpdateInTurnFrom(i, cs, L, rands) ==
    IF i > Len(cs) THEN cs
    ELSE UpdateInTurnFrom(i + 1,
                          [cs EXCEPT ![i] = CarUpdate(cs[i], Distances(cs, L)[i], L, rands[i])],
                          L, rands)

\* mutant of UpdateAll: the distances are computed while the cars move
UpdateAllInTurn(cs, distances, L, rands) == UpdateInTurnFrom(1, cs, L, rands)

\* mutant of UpdateAll: the last car of the list is lost
UpdateAllButLast(cs, distances, L, rands) ==
    [i \in 1..(Len(cs) - 1) |-> CarUpdate(cs[i], distances[i], L, rands[i])]

\* for car, dist in zip(self.cars, distances): car.update(dist, self.length)
UpdateAll(cs, distances, L, rands) ==
    [i \in 1..Len(cs) |-> CarUpdate(cs[i], distances[i], L, rands[i])]

Velocities(cs) == [i \in 1..Len(cs) |-> cs[i].velocity]

Positions(cs) == [i \in 1..Len(cs) |-> cs[i].position]

\* the three values _record_metrics appends
AvgVelocity(cs) == Mean(Velocities(cs))

Density(n, L) == Div(n, L)

\* mutant of Flow: the average velocity alone
FlowWithoutDensity(n, L, cs) == AvgVelocity(cs)

Flow(n, L, cs) == Mul(Density(n, L), AvgVelocity(cs))

\* the dictionary Road.get_state returns
GetStateResult ==
    [time |-> time,
     positions |-> Positions(cars),
     velocities |-> Velocities(cars),
     avg_velocity |-> AvgVelocity(cars),
     density |-> Density(n_cars, length),
     flow |-> IF flow_history # <<>> THEN Last(flow_history) ELSE Zero]

---------------------------------------------------------------------------
(* Initial states: the state Road.__init__ (or Car.__init__) leaves *)

NoAccident ==
    /\ has_accident = FALSE
    /\ accident_location = None
    /\ accident_duration = None
    /\ accident_timer = None

\* no experiment of simulation.py is running: the draws of the generator are left open
NoDriver ==
    /\ rng = None
    /\ runs = <<>>

\* Road(length=L, n_cars=n, v_max=v_max, brake_prob=brake_prob) with the random
\* placement one of choices, then stepped steps times; np.random.choice raises
\* ValueError when there is no placement
RoadInitFrom(choices, L, n, v_max, brake_prob, steps) ==
    /\ length = L
    /\ n_cars = n
    /\ time = 0
    /\ IF Placements(L, n) = {}
       THEN /\ road = "ValueError"
            /\ cars = <<>>
       ELSE /\ road = "ok"
            /\ \E positions \in choices :
                  cars = NewCars(positions, v_max, brake_prob)
    /\ avg_velocity_history = <<>>
    /\ density_history = <<>>
    /\ flow_history = <<>>
    /\ NoAccident
    /\ n_steps = steps
    /\ op = "__init__"
    /\ args = <<L, n>>
    /\ forced = {}
    /\ ret = None
    /\ NoDriver

RoadInit(L, n, v_max, brake_prob, steps) ==
    RoadInitFrom(Placements(L, n), L, n, v_max, brake_prob, steps)

\* Car(position, v_max, acceleration, brake_prob), updated steps times on a ring of L cells
CarInit(L, position, v_max, acceleration, brake_prob, steps) ==
    /\ road = "none"
    /\ length = L
    /\ n_cars = 1
    /\ time = 0
    /\ cars = <<NewCar(1, position, v_max, acceleration, brake_prob)>>
    /\ avg_velocity_history = <<>>
    /\ density_history = <<>>
    /\ flow_history = <<>>
    /\ NoAccident
    /\ n_steps = steps
    /\ op = "__init__"
    /\ args = <<position>>
    /\ forced = {}
    /\ ret = None
    /\ NoDriver

\* small roads, with every requested vehicle count, also more vehicles than cells
InitSmall ==
    \E L \in 1..MaxLength, n \in 0..MaxCars, v_max \in 0..MaxVmax, brake_prob \in BrakeProbs :
        RoadInit(L, n, v_max, brake_prob, MaxSteps)

\* the single-vehicle scenario: v_max=5, brake_prob=0, a road of at least 10 cells
InitFree ==
    \E L \in FreeLength..(FreeLength + 1) :
        RoadInit(L, 1, DefaultVmax, 0, FreeSteps)

\* the cells the cars of a long road start from
FarCells(L) ==
    {0, L - 1} \cup {c \in 0..(L - 1) : Abs(c - AccidentRadius) <= FarWindow}

\* long roads, on which a car can be 20 cells or more away from an incident: two cars
InitFar ==
    \E L \in {FarLength}, brake_prob \in BrakeProbs :
        RoadInitFrom({p \in Placements(L, 2) : \A i \in 1..2 : p[i] \in FarCells(L)},
                     L, 2, MaxVmax, brake_prob, MaxSteps)

\* the cells on both sides of the edge of the zone of an incident at the midpoint
EdgeCells(L) ==
    {c \in 0..(L - 1) : AccidentRadius - 1 <= (L \div 2) - c /\ (L \div 2) - c <= AccidentRadius + 2}

\* long roads with the cars close together at the edge of the zone of an incident at
\* the midpoint: the cars behind are outside the zone, the cars ahead inside
InitEdge ==
    \E L \in {FarLength}, n \in 2..MaxCars, brake_prob \in BrakeProbs :
        RoadInitFrom({p \in Placements(L, n) : \A i \in 1..n : p[i] \in EdgeCells(L)},
                     L, n, MaxVmax, brake_prob, MaxSteps)

\* a Car on its own; and the free-flow scenario: Car(position, v_max=3, brake_prob=0)
\* updated 4 times
InitCar ==
    \/ \E L \in 1..MaxLength, v_max \in 0..MaxVmax, acceleration \in 1..MaxAcceleration,
          brake_prob \in BrakeProbs :
           \E position \in 0..(L - 1) :
               CarInit(L, position, v_max, acceleration, brake_prob, MaxSteps)
    \/ \E L \in {MaxLength} :
           \E position \in 0..(L - 1) :
               CarInit(L, position, 3, DefaultAcceleration, 0, 4)

Init == InitSmall \/ InitFree

\* values outside the valid ranges: a road of no cells or of -1 cells, a negative
\* v_max, a brake_prob of -1/2 or of 3/2
InvalidLengths == {-1, 0}

InvalidVmax == {-1}

InvalidBrakeProbs == {-1, 3}

\* Road.__init__ and Car.__init__ called with a value outside its valid range
InitInvalid ==
    \/ \E L \in InvalidLengths, n \in 0..1 :
           RoadInit(L, n, MaxVmax, 1, MaxSteps)
    \/ \E L \in {MaxLength}, n \in 1..MaxCars, v_max \in InvalidVmax,
          brake_prob \in BrakeProbs :
           RoadInit(L, n, v_max, brake_prob, MaxSteps)
    \/ \E L \in {MaxLength}, n \in 1..MaxCars, brake_prob \in InvalidBrakeProbs :
           RoadInit(L, n, MaxVmax, brake_prob, MaxSteps)
    \/ \E L \in 1..MaxLength, v_max \in InvalidVmax, brake_prob \in BrakeProbs :
           \E position \in 0..(L - 1) :
               CarInit(L, position, v_max, DefaultAcceleration, brake_prob, MaxSteps)
    \/ \E L \in 1..MaxLength, brake_prob \in InvalidBrakeProbs :
           \E position \in 0..(L - 1) :
               CarInit(L, position, MaxVmax, DefaultAcceleration, brake_prob, MaxSteps)

---------------------------------------------------------------------------
(* Operations *)

\* Road.step, rands[i] the value np.random.rand() returns in the update of the
\* i-th car of the sorted list
Step ==
    /\ road = "ok"
    /\ time < n_steps
    /\ \E stopped \in {ApplyAccidentEffects(cars, has_accident, accident_location,
                                             accident_duration, accident_timer, length)} :
       \E sorted \in {SortCars(stopped)} :
       \E distances \in {Distances(sorted, length)} :
       \E rands \in [1..Len(cars) -> RandValues] :
       \E updated \in {UpdateAll(sorted, distances, length, rands)} :
           /\ cars' = updated
           /\ IF length = 0
              THEN \* self.n_cars / self.length raises before anything is appended
                   /\ road' = "ZeroDivisionError"
                   /\ UNCHANGED <<avg_velocity_history, density_history, flow_history>>
              ELSE /\ road' = road
                   /\ avg_velocity_history' =
                          Append(avg_velocity_history, AvgVelocity(updated))
                   /\ density_history' = Append(density_history, Density(n_cars, length))
                   /\ flow_history' = Append(flow_history, Flow(n_cars, length, updated))
    /\ forced' = ForcedCars(cars, has_accident, accident_location, accident_duration,
                            accident_timer, length)
    /\ accident_timer' = NextAccidentTimer(has_accident, accident_timer, accident_duration)
    /\ time' = time + 1
    /\ op' = "step"
    /\ args' = <<>>
    /\ ret' = None
    /\ UNCHANGED <<length, n_cars, has_accident, accident_location,
                   accident_duration, n_steps, driverVars>>

\* the locations introduce_accident is called with: the midpoint of the road, and
\* cell 0 on a road long enough to have cells 20 or more away from it
AccidentLocations(L) ==
    {L \div 2} \cup (IF L >= 2 * AccidentRadius THEN {0} ELSE {})

\* mutant of IntroduceAccident: the timer of an existing incident is kept
IntroduceAccidentKeepingTimer ==
    /\ road = "ok"
    /\ \E location \in AccidentLocations(length), duration \in 0..MaxDuration :
        /\ accident_location' = location
        /\ accident_duration' = duration
        /\ args' = <<location, duration>>
    /\ accident_timer' = IF has_accident THEN accident_timer ELSE 0
    /\ has_accident' = TRUE
    /\ op' = "introduce_accident"
    /\ forced' = {}
    /\ ret' = None
    /\ UNCHANGED <<roadVars, n_steps, driverVars>>

\* Road.introduce_accident(location, duration)
IntroduceAccident ==
    /\ road = "ok"
    /\ \E location \in AccidentLocations(length), duration \in 0..MaxDuration :
        /\ accident_location' = location
        /\ accident_duration' = duration
        /\ args' = <<location, duration>>
    /\ accident_timer' = 0
    /\ has_accident' = TRUE
    /\ op' = "introduce_accident"
    /\ forced' = {}
    /\ ret' = None
    /\ UNCHANGED <<roadVars, n_steps, driverVars>>

\* mutant of GetState: the snapshot is taken of the cars sorted by position
GetStateSorting ==
    /\ road = "ok"
    /\ op # "get_state"
    /\ cars' = SortCars(cars)
    /\ ret' = [GetStateResult EXCEPT !.positions = Positions(cars'),
                                     !.velocities = Velocities(cars')]
    /\ op' = "get_state"
    /\ args' = <<>>
    /\ forced' = {}
    /\ UNCHANGED <<road, length, n_cars, time, avg_velocity_history, density_history,
                   flow_history, accidentVars, n_steps, driverVars>>

\* Road.get_state()
GetState ==
    /\ road = "ok"
    /\ op # "get_state"
    /\ ret' = GetStateResult
    /\ op' = "get_state"
    /\ args' = <<>>
    /\ forced' = {}
    /\ UNCHANGED <<roadVars, accidentVars, n_steps, driverVars>>

\* Car.update(distance_to_next, road_length) called on a Car on its own
Update ==
    /\ road = "none"
    /\ Len(cars[1].velocity_history) < n_steps
    /\ \E distance_to_next \in (0..MaxGap) \cup {LargeGap}, rand \in RandValues :
        /\ cars' = <<CarUpdate(cars[1], distance_to_next, length, rand)>>
        /\ args' = <<distance_to_next, length>>
    /\ op' = "update"
    /\ forced' = {}
    /\ ret' = None
    /\ UNCHANGED <<road, length, n_cars, time, avg_velocity_history, density_history,
                   flow_history, accidentVars, n_steps, driverVars>>

\* a Road and its callers
Next == Step \/ IntroduceAccident \/ GetState

Spec == Init /\ [][Next]_vars

\* a long Road and its callers
SpecFar == InitFar /\ [][Next]_vars

\* a long Road with its cars at the edge of an incident, and its callers
SpecEdge == InitEdge /\ [][Next]_vars

\* a Car on its own, updated with any distances
SpecCar == InitCar /\ [][Update]_vars

\* both: every way a Car is updated
InitUnits == Init \/ InitCar

NextUnits == Next \/ Update

SpecUnits == InitUnits /\ [][NextUnits]_vars

\* a Road or a Car constructed with a value outside its valid range, and its callers
SpecInvalid == InitInvalid /\ [][NextUnits]_vars

---------------------------------------------------------------------------
(* numpy's global generator, as simulation.py uses it.  The generator is     *)
(* modelled by what the program relies on: it has a state, np.random.seed    *)
(* sets the state to a function of the seed alone, and every draw is a       *)
(* function of the state and moves the state on.  The state is a number of   *)
(* 0..63 and a draw the fraction state/64 of [0,1).                          *)

\* np.random.seed(seed)
Seeded(seed) == (29 * seed + 7) % 64

\* the state after one more draw
NextState(g) == (13 * g + 11) % 64

\* the states after each of k draws from state g
RECURSIVE Draws(_, _)
Draws(g, k) == IF k = 0 THEN <<>> ELSE <<NextState(g)>> \o Draws(NextState(g), k - 1)

\* the state after k draws from state g
StateAfter(g, k) == IF k = 0 THEN g ELSE Last(Draws(g, k))

\* np.random.rand() of the draw that leaves state g, in halves
RandOf(g) == (2 * g) \div 64

\* the index of 0..(count - 1) the draw that leaves state g selects
IndexOf(g, count) == (g * count) \div 64

\* the k-th smallest element of S, counted from 0
KthSmallest(S, k) == CHOOSE x \in S : Cardinality({y \in S : y < x}) = k

\* n cells of the set drawn one after the other, without replacement
RECURSIVE Sample(_, _, _)
Sample(cells, n, g) ==
    IF n = 0 THEN {}
    ELSE LET c == KthSmallest(cells, IndexOf(NextState(g), Cardinality(cells)))
         IN {c} \cup Sample(cells \ {c}, n - 1, NextState(g))

\* sorted(...)
RECURSIVE Sorted(_)
Sorted(S) ==
    IF S = {} THEN <<>>
    ELSE <<KthSmallest(S, 0)>> \o Sorted(S \ {KthSmallest(S, 0)})

\* sorted(np.random.choice(range(L), size=n, replace=False)) drawn from state g
Choice(L, n, g) == Sorted(Sample(0..(L - 1), n, g))

---------------------------------------------------------------------------
(* A Road as a value: the fields of the object a function of simulation.py   *)
(* builds, steps and returns.                                                *)

\* the Road Road.__init__ leaves (state "ok"), or its exception
RoadRecord(state, L, n, cs) ==
    [road |-> state,
     length |-> L,
     n_cars |-> n,
     cars |-> cs,
     time |-> 0,
     avg_velocity_history |-> <<>>,
     density_history |-> <<>>,
     flow_history |-> <<>>,
     has_accident |-> FALSE,
     accident_location |-> None,
     accident_duration |-> None,
     accident_timer |-> None]

\* Road(length=L, n_cars=n, v_max=v_max, brake_prob=brake_prob) with the generator in
\* state g: the Road and the state of the generator afterwards
NewRoad(L, n, v_max, brake_prob, g) ==
    IF Placements(L, n) = {}
    THEN [road |-> RoadRecord("ValueError", L, n, <<>>), rng |-> g]
    ELSE [road |-> RoadRecord("ok", L, n, NewCars(Choice(L, n, g), v_max, brake_prob)),
          rng |-> StateAfter(g, n)]

\* road.step() with the generator in state g: every car's update draws once, in the
\* order of the sorted list
RoadStep(r, g) ==
    LET stopped == ApplyAccidentEffects(r.cars, r.has_accident, r.accident_location,
                                        r.accident_duration, r.accident_timer, r.length)
        sorted == SortCars(stopped)
        draws == Draws(g, Len(sorted))
        rands == [i \in 1..Len(sorted) |-> RandOf(draws[i])]
        updated == UpdateAll(sorted, Distances(sorted, r.length), r.length, rands)
        moved == [r EXCEPT !.cars = updated,
                           !.accident_timer = NextAccidentTimer(r.has_accident,
                                                                r.accident_timer,
                                                                r.accident_duration),
                           !.time = @ + 1]
    IN [road |-> IF r.length = 0
                 THEN [moved EXCEPT !.road = "ZeroDivisionError"]
                 ELSE [moved EXCEPT
                         !.avg_velocity_history = Append(@, AvgVelocity(updated)),
                         !.density_history = Append(@, Density(r.n_cars, r.length)),
                         !.flow_history = Append(@, Flow(r.n_cars, r.length, updated))],
        rng |-> StateAfter(g, Len(sorted))]

\* for _ in range(k): road.step()
RECURSIVE RoadSteps(_, _, _)
RoadSteps(r, g, k) ==
    IF k <= 0 \/ r.road # "ok" THEN [road |-> r, rng |-> g]
    ELSE RoadSteps(RoadStep(r, g).road, RoadStep(r, g).rng, k - 1)

\* road.introduce_accident(location, duration)
RoadWithAccident(r, location, duration) ==
    [r EXCEPT !.has_accident = TRUE,
              !.accident_location = location,
              !.accident_duration = duration,
              !.accident_timer = 0]

\* the Road a function of simulation.py returns becomes the Road of the state
SetRoad(r) ==
    /\ road' = r.road
    /\ length' = r.length
    /\ n_cars' = r.n_cars
    /\ cars' = r.cars
    /\ time' = r.time
    /\ avg_velocity_history' = r.avg_velocity_history
    /\ density_history' = r.density_history
    /\ flow_history' = r.flow_history
    /\ has_accident' = r.has_accident
    /\ accident_location' = r.accident_location
    /\ accident_duration' = r.accident_duration
    /\ accident_timer' = r.accident_timer

---------------------------------------------------------------------------
(* simulation.py: run_simulation *)

\* the seed argument: <<>> is seed=None, <<s>> is seed=s
NoSeed == <<>>

SeedOf(s) == <<s>>

Seeds == {NoSeed} \cup {SeedOf(s) : s \in 0..MaxSeed}

\* mutant of SeedGenerator: the seed is not used
SeedGeneratorNever(seed, g) == g

\* if seed is not None: np.random.seed(seed)
SeedGenerator(seed, g) == IF seed # NoSeed THEN Seeded(seed[1]) ELSE g

\* run_simulation(n_steps, road_length, n_cars, v_max, brake_prob, seed) with the
\* generator in state g: the Road returned (or the exception) and the state afterwards
RunSimulation(steps, road_length, n, v_max, brake_prob, seed, g) ==
    LET built == NewRoad(road_length, n, v_max, brake_prob, SeedGenerator(seed, g))
    IN RoadSteps(built.road, built.rng, steps)

\* the arguments of a call of run_simulation
RunArgs(steps, road_length, n, v_max, brake_prob, seed) ==
    [n_steps |-> steps, road_length |-> road_length, n_cars |-> n, v_max |-> v_max,
     brake_prob |-> brake_prob, seed |-> seed]

\* a process that imported simulation.py: no Road yet, the generator in any of a few states
InitDriver ==
    /\ road = "unbuilt"
    /\ length = None
    /\ n_cars = None
    /\ cars = <<>>
    /\ time = None
    /\ avg_velocity_history = <<>>
    /\ density_history = <<>>
    /\ flow_history = <<>>
    /\ NoAccident
    /\ n_steps = None
    /\ op = "import"
    /\ args = <<>>
    /\ forced = {}
    /\ ret = None
    /\ rng \in {Seeded(s) : s \in 0..MaxSeed} \cup {0}
    /\ runs = <<>>

\* a call of run_simulation from the process, with a seed or without
RunSimulationCall ==
    /\ Len(runs) < MaxRuns
    /\ \E steps \in 0..DriverSteps, n \in 1..DriverCars, seed \in Seeds :
       \E result \in {RunSimulation(steps, DriverLength, n, DefaultVmax, DefaultBrakeProb,
                                     seed, rng)} :
           /\ SetRoad(result.road)
           /\ rng' = result.rng
           /\ n_steps' = steps
           /\ args' = RunArgs(steps, DriverLength, n, DefaultVmax, DefaultBrakeProb, seed)
           /\ runs' = Append(runs, [args |-> args', before |-> rng, road |-> result.road])
    /\ op' = "run_simulation"
    /\ forced' = {}
    /\ ret' = None

\* run_simulation called several times in one process
SpecRuns == InitDriver /\ [][RunSimulationCall]_vars

---------------------------------------------------------------------------
(* Arithmetic of floats, as fractions in lowest terms; <<0, 0>> is NaN *)

RECURSIVE GCD(_, _)
GCD(a, b) == IF b = 0 THEN a ELSE GCD(b, a % b)

NaN == <<0, 0>>

Norm(x) ==
    IF x[2] = 0 THEN NaN
    ELSE <<x[1] \div GCD(Abs(x[1]), x[2]), x[2] \div GCD(Abs(x[1]), x[2])>>

AddF(x, y) == Norm(<<x[1] * y[2] + y[1] * x[2], x[2] * y[2]>>)

SubF(x, y) == Norm(<<x[1] * y[2] - y[1] * x[2], x[2] * y[2]>>)

RECURSIVE SumF(_)
SumF(s) == IF s = <<>> THEN Zero ELSE AddF(Head(s), SumF(Tail(s)))

\* np.mean of a list of floats: NaN of the empty list and of a list with a NaN
MeanF(s) == Norm(<<SumF(s)[1], SumF(s)[2] * Len(s)>>)

\* np.std of a list of floats is the square root of this number
VarF(s) == MeanF([i \in 1..Len(s) |-> Norm(Mul(SubF(s[i], MeanF(s)), SubF(s[i], MeanF(s))))])

\* np.std, as the number it is the square root of
StdF(s) == [sqrt_of |-> VarF(s)]

\* h[k:]
SliceFrom(h, k) == SubSeq(h, k + 1, Len(h))

---------------------------------------------------------------------------
(* simulation.py: the experiments *)

\* the Road of the state as a value
CurrentRoad ==
    [road |-> road, length |-> length, n_cars |-> n_cars, cars |-> cars, time |-> time,
     avg_velocity_history |-> avg_velocity_history, density_history |-> density_history,
     flow_history |-> flow_history, has_accident |-> has_accident,
     accident_location |-> accident_location, accident_duration |-> accident_duration,
     accident_timer |-> accident_timer]

\* the entry of the log of calls of run_simulation
LoggedRun(steps, road_length, n, seed, g, r) ==
    [args |-> RunArgs(steps, road_length, n, DefaultVmax, DefaultBrakeProb, seed),
     before |-> g,
     road |-> r]

\* the loop of run_monte_carlo from run on; acc holds the three lists, the exception
\* raised (None: none), the calls of run_simulation made, the last Road and the generator
RECURSIVE MonteCarloFrom(_, _, _, _, _, _)
MonteCarloFrom(run, n_runs, steps, road_length, n, acc) ==
    IF run >= n_runs THEN acc
    ELSE LET result == RunSimulation(steps, road_length, n, DefaultVmax, DefaultBrakeProb,
                                     SeedOf(run), acc.rng)
             r == result.road
             called == [acc EXCEPT !.calls = Append(@, LoggedRun(steps, road_length, n,
                                                                SeedOf(run), acc.rng, r)),
                                   !.road = r,
                                   !.rng = result.rng]
         IN IF r.road # "ok" THEN [called EXCEPT !.raised = r.road]
            ELSE IF r.avg_velocity_history = <<>>
            THEN \* road.avg_velocity_history[-1] of an empty list
                 [called EXCEPT !.raised = "IndexError",
                                !.avg_velocities = Append(@, r.avg_velocity_history),
                                !.flows = Append(@, r.flow_history)]
            ELSE MonteCarloFrom(run + 1, n_runs, steps, road_length, n,
                    [called EXCEPT
                        !.avg_velocities = Append(@, r.avg_velocity_history),
                        !.flows = Append(@, r.flow_history),
                        !.final_velocities = Append(@, Last(r.avg_velocity_history))])

\* run_monte_carlo(n_runs, n_steps, road_length=, n_cars=) with the generator in state g
RunMonteCarlo(n_runs, steps, road_length, n, g) ==
    MonteCarloFrom(0, n_runs, steps, road_length, n,
                   [raised |-> None, avg_velocities |-> <<>>, flows |-> <<>>,
                    final_velocities |-> <<>>, calls |-> <<>>, road |-> CurrentRoad,
                    rng |-> g])

\* n_cars = int(density * road_length), density a fraction that is not negative
ScanCarCount(density, road_length) == (density[1] * road_length) \div density[2]

\* the loop over the runs of one density of experiment_density_scan, from run on
RECURSIVE ScanRunsFrom(_, _, _, _, _, _, _)
ScanRunsFrom(run, n_runs, steps, road_length, n, burn_in, acc) ==
    IF run >= n_runs \/ acc.raised # None THEN acc
    ELSE LET result == RunSimulation(steps, road_length, n, DefaultVmax, DefaultBrakeProb,
                                     SeedOf(run), acc.rng)
             r == result.road
             called == [acc EXCEPT !.calls = Append(@, LoggedRun(steps, road_length, n,
                                                                SeedOf(run), acc.rng, r)),
                                   !.road = r,
                                   !.rng = result.rng]
         IN IF r.road # "ok" THEN [called EXCEPT !.raised = r.road]
            ELSE ScanRunsFrom(run + 1, n_runs, steps, road_length, n, burn_in,
                    [called EXCEPT
                        !.avg_velocities =
                            Append(@, MeanF(SliceFrom(r.avg_velocity_history, burn_in))),
                        !.avg_flows =
                            Append(@, MeanF(SliceFrom(r.flow_history, burn_in)))])

\* the loop over the densities of experiment_density_scan, from the i-th on; the
\* dictionary results is the list of its assignments results[density] = entry
RECURSIVE ScanFrom(_, _, _, _, _, _, _)
ScanFrom(i, densities, steps, road_length, n_runs, burn_in, acc) ==
    IF i > Len(densities) \/ acc.raised # None THEN acc
    ELSE LET ran == ScanRunsFrom(0, n_runs, steps, road_length,
                                 ScanCarCount(densities[i], road_length), burn_in,
                                 [acc EXCEPT !.avg_velocities = <<>>, !.avg_flows = <<>>])
             entry == [avg_velocity |-> MeanF(ran.avg_velocities),
                       std_velocity |-> StdF(ran.avg_velocities),
                       avg_flow |-> MeanF(ran.avg_flows),
                       std_flow |-> StdF(ran.avg_flows)]
         IN ScanFrom(i + 1, densities, steps, road_length, n_runs, burn_in,
                     IF ran.raised # None THEN ran
                     ELSE [ran EXCEPT !.assigned = Append(@, <<densities[i], entry>>)])

\* the dictionary a list of assignments leaves: the last entry assigned to each key
DictOf(assigned) ==
    [key \in {assigned[k][1] : k \in 1..Len(assigned)} |->
        assigned[CHOOSE k \in 1..Len(assigned) :
                    /\ assigned[k][1] = key
                    /\ \A j \in (k + 1)..Len(assigned) : assigned[j][1] # key][2]]

\* experiment_density_scan(densities, n_steps, road_length, n_runs, burn_in) with the
\* generator in state g
ExperimentDensityScan(densities, steps, road_length, n_runs, burn_in, g) ==
    ScanFrom(1, densities, steps, road_length, n_runs, burn_in,
             [raised |-> None, avg_velocities |-> <<>>, avg_flows |-> <<>>,
              assigned |-> <<>>, calls |-> <<>>, road |-> CurrentRoad, rng |-> g])

\* run_accident_experiment(n_steps, accident_start, accident_duration, road_length,
\* n_cars): the generator is seeded with 42
RunAccidentExperiment(steps, accident_start, duration, road_length, n) ==
    LET built == NewRoad(road_length, n, DefaultVmax, DefaultBrakeProb, Seeded(42))
        before == RoadSteps(built.road, built.rng, accident_start)
        after == RoadSteps(RoadWithAccident(before.road, road_length \div 2, duration),
                           before.rng, steps - accident_start)
    IN IF before.road.road # "ok" THEN before ELSE after

\* the densities of a scan: 0, 7/16 (1.75 cars on 4 cells) and 1/2
Densities == {<<0, 1>>, <<7, 16>>, <<1, 2>>}

\* the lists of at most two densities
DensityLists == {<<>>} \cup {<<d>> : d \in Densities} \cup (Densities \X Densities)

\* run_monte_carlo called in a fresh process
RunMonteCarloCall ==
    /\ op = "import"
    /\ \E n_runs \in 0..MaxRuns, steps \in 0..DriverSteps, n \in 1..DriverCars :
       \E result \in {RunMonteCarlo(n_runs, steps, DriverLength, n, rng)} :
           /\ SetRoad(result.road)
           /\ rng' = result.rng
           /\ runs' = result.calls
           /\ n_steps' = steps
           /\ args' = [n_runs |-> n_runs, n_steps |-> steps, road_length |-> DriverLength,
                       n_cars |-> n]
           /\ ret' = [raised |-> result.raised,
                      avg_velocities |-> result.avg_velocities,
                      flows |-> result.flows,
                      final_velocities |-> result.final_velocities,
                      n_runs |-> n_runs]
    /\ op' = "run_monte_carlo"
    /\ forced' = {}

\* experiment_density_scan called in a fresh process
ExperimentDensityScanCall ==
    /\ op = "import"
    /\ \E densities \in DensityLists, steps \in 1..DriverSteps, n_runs \in 1..MaxRuns,
          burn_in \in 0..1 :
       \E result \in {ExperimentDensityScan(densities, steps, DriverLength, n_runs,
                                             burn_in, rng)} :
           /\ SetRoad(result.road)
           /\ rng' = result.rng
           /\ runs' = result.calls
           /\ n_steps' = steps
           /\ args' = [densities |-> densities, n_steps |-> steps,
                       road_length |-> DriverLength, n_runs |-> n_runs,
                       burn_in |-> burn_in]
           /\ ret' = [raised |-> result.raised, results |-> DictOf(result.assigned)]
    /\ op' = "experiment_density_scan"
    /\ forced' = {}

\* run_accident_experiment called in a fresh process
RunAccidentExperimentCall ==
    /\ op = "import"
    /\ \E steps \in 0..DriverSteps, accident_start \in 0..DriverSteps,
          duration \in 0..MaxDuration, n \in 1..DriverCars :
       \E result \in {RunAccidentExperiment(steps, accident_start, duration,
                                             DriverLength, n)} :
           /\ SetRoad(result.road)
           /\ rng' = result.rng
           /\ n_steps' = steps
           /\ args' = [n_steps |-> steps, accident_start |-> accident_start,
                       accident_duration |-> duration, road_length |-> DriverLength,
                       n_cars |-> n]
    /\ runs' = runs
    /\ ret' = None
    /\ op' = "run_accident_experiment"
    /\ forced' = {}

NextExperiments ==
    RunMonteCarloCall \/ ExperimentDensityScanCall \/ RunAccidentExperimentCall

\* a process that runs one of the experiments
SpecExperiments == InitDriver /\ [][NextExperiments]_vars

---------------------------------------------------------------------------
(* Vocabulary of the properties, stated without the operators above *)

CarIds == {cars[i].id : i \in 1..Len(cars)}

\* the car with the given id, before and after a step
CarOf(id) == cars[CHOOSE i \in 1..Len(cars) : cars[i].id = id]

CarOfNext(id) == cars'[CHOOSE i \in 1..Len(cars') : cars'[i].id = id]

PairwiseDistinct(s) == \A i, j \in 1..Len(s) : i # j => s[i] # s[j]

\* the number of cells from cell p forward to cell q around a ring of L cells
ForwardDistance(p, q, L) == (q - p) % L

SetMin(S) == CHOOSE x \in S : \A y \in S : x <= y

\* the gap of the car with the given id to the nearest car ahead on the ring
\* (0 when it is the only car: the car ahead of it is itself)
GapAhead(id) ==
    LET ahead == {ForwardDistance(CarOf(id).position, CarOf(o).position, length) :
                    o \in CarIds \ {id}}
    IN IF ahead = {} THEN 0 ELSE SetMin(ahead)

\* the braking outcomes (1: brakes) a brake probability allows
BrakeOutcomes(brake_prob) ==
    {b \in {0, 1} : (b = 1 => brake_prob > 0) /\ (b = 0 => brake_prob < 2)}

\* the velocity of the Nagel-Schreckenberg rule from velocity v with gap d and
\* braking outcome b
RuleVelocity(v, d, b, acceleration, v_max) ==
    LET a == IF v + acceleration < v_max THEN v + acceleration ELSE v_max
        c == IF d <= a THEN (IF d >= 1 THEN d - 1 ELSE 0) ELSE a
    IN IF c - b >= 0 THEN c - b ELSE 0

\* the velocities the rule allows the car with the given id in the next step,
\* from velocity v
RuleVelocities(id, v) ==
    {RuleVelocity(v, GapAhead(id), b, CarOf(id).acceleration, CarOf(id).v_max) :
        b \in BrakeOutcomes(CarOf(id).brake_prob)}

\* the distance of cell p to cell q around a ring of L cells, the shorter way
CircularDistance(p, q, L) ==
    LET d == IF p >= q THEN p - q ELSE q - p
    IN IF d <= L - d THEN d ELSE L - d

\* two floats are the same number (NaN only matches NaN)
SameNumber(x, y) == /\ (x[2] = 0) <=> (y[2] = 0)
                    /\ x[1] * y[2] = y[1] * x[2]

\* the ids of the cars within 20 cells of the incident location
CarsNearIncident ==
    {id \in CarIds : CircularDistance(CarOf(id).position, accident_location, length) < 20}

\* history h grows by exactly one entry
GrowsByOne(h, hNext) == Len(hNext) = Len(h) + 1 /\ SubSeq(hNext, 1, Len(h)) = h

\* a step of the road happens
StepTaken == op' = "step" /\ time' = time + 1

---------------------------------------------------------------------------
(* C1: every car's velocity is at least 0 and at most its v_max in every state, *)
(* after any sequence of Car.update calls with any distances and braking draws *)
(* and after any step of a Road, also one in which an incident stops cars; the *)
(* same holds of every velocity recorded in a car's history.                   *)
VelocityWithinLimits ==
    \A i \in 1..Len(cars) :
        /\ 0 <= cars[i].velocity
        /\ cars[i].velocity <= cars[i].v_max
        /\ \A k \in 1..Len(cars[i].velocity_history) :
              /\ 0 <= cars[i].velocity_history[k]
              /\ cars[i].velocity_history[k] <= cars[i].v_max

\* a Car updated on its own that was slowed down and is now driving at its v_max > 0
VelocityWithinLimitsWitness ==
    /\ op = "update"
    /\ cars[1].v_max > 0
    /\ cars[1].velocity = cars[1].v_max
    /\ \E k \in 1..(Len(cars[1].velocity_history) - 1) :
          cars[1].velocity_history[k] > cars[1].velocity_history[k + 1]

(* C2: every car's position is a cell 0..length-1 of the ring in every state,  *)
(* and so is every position recorded in its history: the move wraps.           *)
PositionOnRing ==
    \A i \in 1..Len(cars) :
        /\ cars[i].position \in 0..(length - 1)
        /\ \A k \in 1..Len(cars[i].position_history) :
              cars[i].position_history[k] \in 0..(length - 1)

\* a car of a Road has moved past the last cell and wrapped to the start of the ring
PositionOnRingWitness ==
    /\ op = "step"
    /\ \E i \in 1..Len(cars) :
          /\ cars[i].velocity > 0
          /\ cars[i].position < cars[i].velocity

(* C3: on a Road with at least 2 cars on which no incident was introduced, the *)
(* positions are pairwise distinct in every state, and in every step each car  *)
(* moves by fewer cells than its gap, so that it ends at least one cell behind *)
(* the cell the car ahead had before the step.                                 *)
NoIncidentDistinct ==
    (road = "ok" /\ ~has_accident /\ Len(cars) >= 2) => PairwiseDistinct(Positions(cars))

NoIncidentStaysBehind ==
    (StepTaken /\ ~has_accident /\ Len(cars) >= 2) =>
        \A id \in CarIds :
            LET gap == GapAhead(id)
                ahead == (CarOf(id).position + gap) % length
            IN /\ gap >= 1
               /\ CarOfNext(id).velocity < gap
               /\ CarOfNext(id).position = (CarOf(id).position + CarOfNext(id).velocity) % length
               /\ ForwardDistance(CarOfNext(id).position, ahead, length) >= 1

SingleVehicleReachesVmax ==
    (/\ road = "ok"
     /\ n_cars = 1
     /\ length >= 10
     /\ ~has_accident
     /\ cars[1].v_max = 5
     /\ cars[1].brake_prob = 0
     /\ cars[1].acceleration = 1
     /\ time >= 5) => cars[1].velocity = cars[1].v_max

(* C5: in a step taken while an incident is active, exactly the cars whose     *)
(* circular distance to the incident location is below 20 at the start of the  *)
(* step have their velocity overwritten with 0 and are then updated by the     *)
(* rule from velocity 0; every car 20 cells or more away is updated by the     *)
(* rule from its own velocity and gap, as without an incident.                 *)
IncidentStopsNearCarsOnly ==
    (StepTaken /\ has_accident /\ accident_timer < accident_duration) =>
        \A id \in CarIds :
            IF CircularDistance(CarOf(id).position, accident_location, length) < 20
            THEN /\ id \in forced'
                 /\ CarOfNext(id).velocity \in RuleVelocities(id, 0)
            ELSE /\ id \notin forced'
                 /\ CarOfNext(id).velocity \in RuleVelocities(id, CarOf(id).velocity)

IncidentEffect == [][IncidentStopsNearCarsOnly]_vars

\* a step under an active incident that stopped one car while the other, 20 cells
\* or more away, went on faster than a stopped car can
IncidentEffectWitness ==
    /\ op = "step"
    /\ has_accident
    /\ forced # {}
    /\ \E i \in 1..Len(cars) :
          /\ cars[i].id \notin forced
          /\ cars[i].velocity >= 2

(* C6: an incident's timer is between 0 and its duration in every state; a     *)
(* step taken while the timer is below the duration adds 1 to it, and a step   *)
(* taken once the timer has reached the duration, or on a Road without an      *)
(* incident, leaves it unchanged and overwrites no velocity: every car is      *)
(* updated by the rule from its own velocity. With the timer 0 after           *)
(* introduce_accident, the incident is active in exactly the next D steps.     *)
TimerWithinDuration ==
    /\ has_accident => (0 <= accident_timer /\ accident_timer <= accident_duration)
    /\ ~has_accident => forced = {}

TimerCountsActiveSteps ==
    StepTaken =>
        IF has_accident /\ accident_timer < accident_duration
        THEN accident_timer' = accident_timer + 1
        ELSE /\ accident_timer' = accident_timer
             /\ forced' = {}
             /\ \A id \in CarIds :
                   CarOfNext(id).velocity \in RuleVelocities(id, CarOf(id).velocity)

IncidentLastsItsDuration == []TimerWithinDuration /\ [][TimerCountsActiveSteps]_vars

\* a step after an incident of duration >= 1 has run out: no car was stopped and one
\* drives faster than a car stopped in that step could
IncidentLastsItsDurationWitness ==
    /\ op = "step"
    /\ has_accident
    /\ accident_duration >= 1
    /\ accident_timer = accident_duration
    /\ forced = {}
    /\ \E i \in 1..Len(cars) : cars[i].velocity >= 2

(* C7: introduce_accident(location, duration), called in any state, sets the   *)
(* incident to (location, duration, timer 0) and leaves the cars, the time     *)
(* counter and the histories unchanged; the steps that follow stop the cars    *)
(* near the location of the latest call only, counting its duration from 0.    *)
IntroduceSetsIncident ==
    (op' = "introduce_accident") =>
        /\ has_accident'
        /\ accident_location' = args'[1]
        /\ accident_duration' = args'[2]
        /\ accident_timer' = 0
        /\ UNCHANGED <<road, length, n_cars, cars, time, avg_velocity_history,
                       density_history, flow_history>>

StepUsesLatestIncident ==
    (StepTaken /\ has_accident) =>
        IF accident_timer < accident_duration
        THEN forced' = CarsNearIncident /\ accident_timer' = accident_timer + 1
        ELSE forced' = {} /\ accident_timer' = accident_timer

IntroduceOverwrites == [][IntroduceSetsIncident /\ StepUsesLatestIncident]_vars

\* three steps after which the timer is 1 although a car that never brakes at random
\* and has a free road was stopped in the second and in the third step: an incident
\* was introduced while the previous one was active, and counts from 0
IntroduceOverwritesWitness ==
    /\ op = "step"
    /\ time = 3
    /\ has_accident
    /\ accident_timer = 1
    /\ forced # {}
    /\ \E i \in 1..Len(cars) :
          /\ cars[i].brake_prob = 0
          /\ cars[i].velocity_history = <<1, 1, 1>>
          /\ GapAhead(cars[i].id) >= 10

(* C8: on a Road, time equals the number of entries of each of the three       *)
(* histories; every density entry is n_cars / length, the k-th average         *)
(* velocity entry is the mean of the velocities the cars had after the k-th    *)
(* step, and the k-th flow entry is the k-th density entry times the k-th      *)
(* average velocity entry; a step adds 1 to time and one entry to each history.*)
MetricsAligned ==
    road = "ok" =>
        /\ Len(avg_velocity_history) = time
        /\ Len(density_history) = time
        /\ Len(flow_history) = time
        /\ \A k \in 1..time :
              /\ SameNumber(density_history[k], <<n_cars, length>>)
              /\ SameNumber(avg_velocity_history[k],
                            <<Sum([i \in 1..Len(cars) |-> cars[i].velocity_history[k]]),
                              Len(cars)>>)
              /\ SameNumber(flow_history[k],
                            <<density_history[k][1] * avg_velocity_history[k][1],
                              density_history[k][2] * avg_velocity_history[k][2]>>)

StepRecordsOnce ==
    (op' = "step") =>
        /\ time' = time + 1
        /\ GrowsByOne(avg_velocity_history, avg_velocity_history')
        /\ GrowsByOne(density_history, density_history')
        /\ GrowsByOne(flow_history, flow_history')

MetricsRecorded == []MetricsAligned /\ [][StepRecordsOnce]_vars

\* all steps of a run done on a road with free cells, the average velocity having changed
MetricsRecordedWitness ==
    /\ road = "ok"
    /\ time = n_steps
    /\ n_cars >= 2
    /\ n_cars < length
    /\ avg_velocity_history[time][1] > 0
    /\ ~SameNumber(avg_velocity_history[time], avg_velocity_history[1])

(* C9: get_state changes nothing of the Road (cars and their order, time,      *)
(* histories, incident) and returns the time, the positions and velocities of  *)
(* the cars in list order, their mean velocity, the density n_cars / length,   *)
(* and as flow the last entry of flow_history, or 0 before the first step.     *)
GetStateReadsOnly ==
    (op' = "get_state") =>
        /\ UNCHANGED <<road, length, n_cars, cars, time, avg_velocity_history,
                       density_history, flow_history, has_accident, accident_location,
                       accident_duration, accident_timer>>
        /\ ret'.time = time
        /\ ret'.positions = [i \in 1..Len(cars) |-> cars[i].position]
        /\ ret'.velocities = [i \in 1..Len(cars) |-> cars[i].velocity]
        /\ SameNumber(ret'.avg_velocity,
                      <<Sum([i \in 1..Len(cars) |-> cars[i].velocity]), Len(cars)>>)
        /\ SameNumber(ret'.density, <<n_cars, length>>)
        /\ IF time = 0
           THEN SameNumber(ret'.flow, <<0, 1>>)
           ELSE ret'.flow = flow_history[Len(flow_history)]

GetStateIsProjection == [][GetStateReadsOnly]_vars

\* a snapshot taken after a step, with a positive flow, of cars whose list order is
\* no longer ascending because one has wrapped around the ring
GetStateIsProjectionWitness ==
    /\ op = "get_state"
    /\ time >= 1
    /\ ret.flow[1] > 0
    /\ \E i \in 1..(Len(cars) - 1) : cars[i].position > cars[i + 1].position

(* C10: a Road with more vehicles than cells (length >= 1) is not constructed: *)
(* the constructor raises, and no step runs; a Road with 0 < n_cars <= length  *)
(* is constructed, and right after construction it holds n_cars cars on        *)
(* pairwise distinct cells of the ring, each with velocity 0.                  *)
ConstructionChecked ==
    /\ n_cars > length =>
          /\ road = "ValueError"
          /\ op = "__init__"
          /\ time = 0
          /\ cars = <<>>
          /\ avg_velocity_history = <<>>
    /\ (0 < n_cars /\ n_cars <= length) => road \in {"ok", "none"}
    /\ (road = "ok" /\ op = "__init__") =>
          /\ Len(cars) = n_cars
          /\ PairwiseDistinct(Positions(cars))
          /\ \A i \in 1..Len(cars) :
                /\ cars[i].position \in 0..(length - 1)
                /\ cars[i].velocity = 0

\* the construction of a Road with one vehicle more than cells has failed
ConstructionCheckedWitness ==
    /\ road = "ValueError"
    /\ n_cars = length + 1

---------------------------------------------------------------------------
(* C11: a Road or a Car constructed with a road length <= 0, a v_max < 0 or a  *)
(* brake_prob outside [0, 1] is rejected at construction, so that no step or  *)
(* update ever runs on it.                                                    *)

InvalidConfiguration ==
    \/ length <= 0
    \/ \E i \in 1..Len(cars) : cars[i].v_max < 0
    \/ \E i \in 1..Len(cars) : cars[i].brake_prob < 0 \/ cars[i].brake_prob > 2

InvalidConfigurationRejected ==
    InvalidConfiguration =>
        /\ road = "ValueError"
        /\ time = 0
        /\ \A i \in 1..Len(cars) : cars[i].velocity_history = <<>>

---------------------------------------------------------------------------
(* C12: a step of a Road without cars is reported as an error: it appends no  *)
(* undefined (NaN) average velocity and no undefined flow.                    *)

IsNaN(x) == x[2] = 0

EmptyFleetStepRejected ==
    (road = "ok" /\ n_cars = 0) =>
        /\ op # "step"
        /\ \A k \in 1..Len(avg_velocity_history) : ~IsNaN(avg_velocity_history[k])
        /\ \A k \in 1..Len(flow_history) : ~IsNaN(flow_history[k])

---------------------------------------------------------------------------
(* C14: the number of cars of a Road is n_cars in every reachable state: no   *)
(* operation creates, removes or duplicates a car, and the list an operation  *)
(* leaves holds the same cars as before, possibly in another order.           *)

FleetHasRequestedSize ==
    road = "ok" =>
        /\ Len(cars) = n_cars
        /\ Cardinality(CarIds) = n_cars

\* every car of the list before is in the list after exactly once, and no other
SameFleet ==
    /\ Len(cars') = Len(cars)
    /\ \A id \in CarIds : Cardinality({i \in 1..Len(cars') : cars'[i].id = id}) = 1
    /\ n_cars' = n_cars

FleetConserved == []FleetHasRequestedSize /\ [][SameFleet]_vars

\* three cars stepped to the end, through an incident, in another order than at the start
FleetConservedWitness ==
    /\ road = "ok"
    /\ n_cars = MaxCars
    /\ time = MaxSteps
    /\ has_accident
    /\ cars[1].id # 1

---------------------------------------------------------------------------
(* C18: Car.update(d, L) of a car with velocity v runs its phases in the      *)
(* order accelerate, avoid collision, brake, move: with a = min(v +           *)
(* acceleration, v_max) and c = max(d - 1, 0) if d <= a, else a, the new      *)
(* velocity is max(c - b, 0) for the braking outcome b, the new position is   *)
(* (position + new velocity) mod L, and both are appended to the histories.   *)
(* So d = 0 gives velocity 0, a car with v_max = 0 at velocity 0 stays where  *)
(* it is, and with v_max = 3, brake_prob = 0 and gaps of at least 100 the     *)
(* first four velocities are 1, 2, 3, 3.                                      *)

UpdateTaken == op' = "update"

UpdateFollowsRule ==
    UpdateTaken =>
        LET d == args'[1]
            L == args'[2]
            car == cars[1]
            after == cars'[1]
        IN /\ after.velocity \in
                 {RuleVelocity(car.velocity, d, b, car.acceleration, car.v_max) :
                     b \in BrakeOutcomes(car.brake_prob)}
           /\ after.position = (car.position + after.velocity) % L
           /\ after.velocity_history = car.velocity_history \o <<after.velocity>>
           /\ after.position_history = car.position_history \o <<after.position>>
           /\ d = 0 => after.velocity = 0
           /\ (car.v_max = 0 /\ car.velocity = 0) =>
                 (after.velocity = 0 /\ after.position = car.position)

IsPrefix(s, t) == Len(s) <= Len(t) /\ s = SubSeq(t, 1, Len(s))

\* with v_max = 3, brake_prob = 0 and a gap of at least 100, velocities that began
\* 1, 2, 3, 3 go on so
FreeFlowVelocities ==
    (/\ UpdateTaken
     /\ cars[1].v_max = 3
     /\ cars[1].acceleration = 1
     /\ cars[1].brake_prob = 0
     /\ args'[1] >= 100
     /\ Len(cars[1].velocity_history) < 4
     /\ IsPrefix(cars[1].velocity_history, <<1, 2, 3, 3>>))
    => IsPrefix(cars'[1].velocity_history, <<1, 2, 3, 3>>)

UpdateRule == [][UpdateFollowsRule /\ FreeFlowVelocities]_vars

\* the free-flow scenario after its four updates, the last one with a gap of 100 or more
UpdateRuleWitness ==
    /\ op = "update"
    /\ cars[1].v_max = 3
    /\ cars[1].brake_prob = 0
    /\ args[1] >= 100
    /\ cars[1].velocity_history = <<1, 2, 3, 3>>
    /\ Len(cars[1].position_history) = 4

---------------------------------------------------------------------------
(* C19: the update of a step is simultaneous: every car is updated with the   *)
(* distance to the next car ahead on the ring (the car after the last one is  *)
(* the first one) as the positions were at the start of the step, before any  *)
(* car moved.                                                                 *)

GapsFromStartOfStep ==
    StepTaken =>
        \A i \in 1..Len(cars) :
            \E car \in {cars[i]} :
            \E ahead \in {{ForwardDistance(car.position, cars[j].position, length) :
                              j \in (1..Len(cars)) \ {i}}} :
            \E gap \in {IF ahead = {} THEN 0 ELSE SetMin(ahead)} :
            \E v \in {IF car.id \in forced' THEN 0 ELSE car.velocity} :
            \E after \in {CarOfNext(car.id)} :
                /\ after.velocity \in
                      {RuleVelocity(v, gap, b, car.acceleration, car.v_max) :
                          b \in BrakeOutcomes(car.brake_prob)}
                /\ after.position = (car.position + after.velocity) % length

SimultaneousUpdate == [][GapsFromStartOfStep]_vars

\* the position of the car with the given id before the last step
PositionBefore(id) == CarOf(id).position_history[time - 1]

\* a step in which the car on the lowest cell moved on, and the car on the highest
\* cell, which never brakes, was held one cell short of the cell the former left
SimultaneousUpdateWitness ==
    /\ op = "step"
    /\ time >= 2
    /\ ~has_accident
    /\ \E a, b \in CarIds :
          /\ \A o \in CarIds :
                PositionBefore(a) <= PositionBefore(o) /\ PositionBefore(o) <= PositionBefore(b)
          /\ PositionBefore(a) < PositionBefore(b)
          /\ CarOf(a).velocity > 0
          /\ CarOf(b).brake_prob = 0
          /\ CarOf(b).velocity =
                ForwardDistance(PositionBefore(b), PositionBefore(a), length) - 1
          /\ CarOf(b).velocity < CarOf(b).v_max
          /\ CarOf(b).velocity <= CarOf(b).velocity_history[time - 1]

---------------------------------------------------------------------------
(* C13: two calls of run_simulation with the same n_steps, road_length,       *)
(* n_cars, v_max, brake_prob and the same seed (not None) return Roads with   *)
(* the same avg_velocity_history, density_history and flow_history, whatever  *)
(* ran before them in the process.                                            *)

SameHistories(r1, r2) ==
    /\ r1.avg_velocity_history = r2.avg_velocity_history
    /\ r1.density_history = r2.density_history
    /\ r1.flow_history = r2.flow_history

SeededRunsAgree ==
    \A i, j \in 1..Len(runs) :
        (runs[i].args = runs[j].args /\ runs[i].args.seed # <<>>) =>
            /\ SameHistories(runs[i].road, runs[j].road)
            /\ runs[i].road.cars = runs[j].road.cars

\* two calls with the same arguments and seed, of two cars and the most steps, made
\* with the generator in different states, in which a car moved
SeededRunsAgreeWitness ==
    /\ Len(runs) = MaxRuns
    /\ runs[1].args = runs[2].args
    /\ runs[1].args.seed # <<>>
    /\ runs[1].args.n_cars = DriverCars
    /\ runs[1].args.n_steps = DriverSteps
    /\ runs[1].before # runs[2].before
    /\ runs[2].before # Seeded(runs[2].args.seed[1])
    /\ \E k \in 1..DriverSteps : runs[2].road.avg_velocity_history[k][1] > 0

---------------------------------------------------------------------------
(* C15: for any n_runs >= 0 and n_steps >= 0, run_monte_carlo runs run i with *)
(* seed i and returns three collections of n_runs entries each: run i's       *)
(* average-velocity history of n_steps values, its flow history of n_steps    *)
(* values, and its final average velocity, the last value of its history.     *)

MonteCarloReturnsAllRuns ==
    op = "run_monte_carlo" =>
        /\ ret.raised = None
        /\ Len(ret.avg_velocities) = args.n_runs
        /\ Len(ret.flows) = args.n_runs
        /\ Len(ret.final_velocities) = args.n_runs
        /\ Len(runs) = args.n_runs
        /\ \A i \in 1..args.n_runs :
              /\ runs[i].args.seed = <<i - 1>>
              /\ Len(ret.avg_velocities[i]) = args.n_steps
              /\ Len(ret.flows[i]) = args.n_steps
              /\ args.n_steps >= 1 =>
                    SameNumber(ret.final_velocities[i],
                               ret.avg_velocities[i][args.n_steps])

---------------------------------------------------------------------------
(* C16: for a list of K densities experiment_density_scan returns exactly K   *)
(* entries, one per requested density, each with a defined, non-negative      *)
(* mean and standard deviation of velocity and of flow.                       *)

DefinedNonNegative(x) == x[2] # 0 /\ x[1] * x[2] >= 0

ScanReturnsEveryDensity ==
    op = "experiment_density_scan" =>
        /\ ret.raised = None
        /\ Cardinality(DOMAIN ret.results) = Len(args.densities)
        /\ \A k \in 1..Len(args.densities) : args.densities[k] \in DOMAIN ret.results
        /\ \A d \in DOMAIN ret.results :
              /\ DefinedNonNegative(ret.results[d].avg_velocity)
              /\ DefinedNonNegative(ret.results[d].std_velocity.sqrt_of)
              /\ DefinedNonNegative(ret.results[d].avg_flow)
              /\ DefinedNonNegative(ret.results[d].std_flow.sqrt_of)

---------------------------------------------------------------------------
(* C17: for all n_steps >= 0 and accident_start >= 0, run_accident_experiment *)
(* returns a Road that has run exactly n_steps steps: accident_start steps    *)
(* without incident, then introduce_accident(road_length // 2,                *)
(* accident_duration), then the remaining n_steps - accident_start steps.     *)

AccidentExperimentRunsAllSteps ==
    op = "run_accident_experiment" =>
        /\ road = "ok"
        /\ time = args.n_steps
        /\ Len(avg_velocity_history) = args.n_steps
        /\ has_accident
        /\ accident_location = args.road_length \div 2
        /\ accident_duration = args.accident_duration

---------------------------------------------------------------------------
(* C20: experiment_density_scan runs every density with the number of cars    *)
(* round(density * road_length), the integer nearest to the product: a        *)
(* product of 1.75 gives 2 cars.                                              *)

\* n is an integer nearest to the fraction x
IsNearestInteger(n, x) ==
    \A m \in {n - 1, n + 1} : Abs(n * x[2] - x[1]) <= Abs(m * x[2] - x[1])

ScanCountIsRounded ==
    op = "experiment_density_scan" =>
        \A k \in 1..Len(runs) :
            LET density == args.densities[((k - 1) \div args.n_runs) + 1]
            IN IsNearestInteger(runs[k].args.n_cars,
                                <<density[1] * args.road_length, density[2]>>)

---------------------------------------------------------------------------
(* C21: overlap is prevented around incidents too: on a Road with at least 2  *)
(* cars on pairwise distinct cells, however steps and introduce_accident      *)
(* calls interleave (an incident may expire or be overwritten), every gap     *)
(* before a step is at least 1 and the positions are pairwise distinct after  *)
(* every step.                                                                *)

DistinctCells ==
    (road = "ok" /\ n_cars >= 2) =>
        \A i, j \in 1..Len(cars) : i # j => cars[i].position # cars[j].position

GapsAtLeastOne ==
    (StepTaken /\ n_cars >= 2) =>
        \A i, j \in 1..Len(cars) :
            i # j => ForwardDistance(cars[i].position, cars[j].position, length) >= 1

NoOverlapAroundIncident == []DistinctCells /\ [][GapsAtLeastOne]_vars

\* a step in which an incident stopped some cars and not others, after which a car
\* that was not stopped stands directly behind one that was
NoOverlapAroundIncidentWitness ==
    /\ op = "step"
    /\ has_accident
    /\ forced # {}
    /\ \E a, b \in CarIds :
          /\ a \notin forced
          /\ b \in forced
          /\ ForwardDistance(CarOf(a).position, CarOf(b).position, length) = 1

---------------------------------------------------------------------------
(* C22: no overtaking: on a Road with at least 2 cars on distinct cells every *)
(* car advances in a step by fewer cells than its gap to the car ahead before *)
(* the step, so the order of the cars around the ring never changes (the      *)
(* sorted list only rotates when a car wraps past cell 0), and the gaps       *)
(* around the ring sum to the road length.                                    *)

\* the place in the list cs of the nearest car ahead of cs[i]
AheadIn(cs, i) ==
    CHOOSE j \in (1..Len(cs)) \ {i} :
        \A m \in (1..Len(cs)) \ {i} :
            ForwardDistance(cs[i].position, cs[j].position, length) <=
                ForwardDistance(cs[i].position, cs[m].position, length)

\* the gap of cs[i] to the nearest car ahead
GapIn(cs, i) == ForwardDistance(cs[i].position, cs[AheadIn(cs, i)].position, length)

\* the id after id around a ring of n cars numbered 1..n in the order of their cells
NextId(id, n) == (id % n) + 1

\* the cars follow each other around the ring, and in the list read as a ring, in the
\* order in which Road.__init__ placed them; the gaps sum to the road length
RingOrderKept ==
    (road = "ok" /\ n_cars >= 2) =>
        /\ \A i \in 1..Len(cars) :
              /\ cars[AheadIn(cars, i)].id = NextId(cars[i].id, n_cars)
              /\ cars[(i % Len(cars)) + 1].id = NextId(cars[i].id, n_cars)
        /\ Sum([i \in 1..Len(cars) |-> GapIn(cars, i)]) = length

AdvanceBelowGap ==
    (StepTaken /\ n_cars >= 2) =>
        \A i \in 1..Len(cars) :
            \E k \in {CHOOSE k \in 1..Len(cars') : cars'[k].id = cars[i].id} :
                /\ \A j \in (1..Len(cars)) \ {i} :
                      cars'[k].velocity <
                          ForwardDistance(cars[i].position, cars[j].position, length)
                /\ ForwardDistance(cars[i].position, cars'[k].position, length) =
                      cars'[k].velocity

NoOvertaking == []RingOrderKept /\ [][AdvanceBelowGap]_vars

\* three cars after the last step, the list begun at another car than at the start
\* because a car wrapped past cell 0, and a car directly behind the car ahead of it
NoOvertakingWitness ==
    /\ op = "step"
    /\ n_cars = MaxCars
    /\ time = MaxSteps
    /\ cars[1].id # 1
    /\ \E i \in 1..Len(cars) :
          /\ cars[i].position < cars[i].position_history[time - 1]
          /\ cars[i].velocity > 0
    /\ \E i \in 1..Len(cars) : GapIn(cars, i) = 1

---------------------------------------------------------------------------
(* C23: the histories of every car are aligned with the step counter: after k *)
(* steps of a Road velocity_history and position_history have k entries each, *)
(* their last entries are the car's velocity and position, and the j-th       *)
(* position entry is (previous position + j-th velocity entry) mod length,    *)
(* the previous position being the (j-1)-th entry, or the initial position    *)
(* for the first step; an incident never adds, drops or rewrites an entry.    *)

HistoriesAligned ==
    road = "ok" =>
        \A i \in 1..Len(cars) :
            /\ Len(cars[i].velocity_history) = time
            /\ Len(cars[i].position_history) = time
            /\ time >= 1 =>
                  /\ cars[i].velocity_history[time] = cars[i].velocity
                  /\ cars[i].position_history[time] = cars[i].position
            /\ \A j \in 2..time :
                  cars[i].position_history[j] =
                      (cars[i].position_history[j - 1] + cars[i].velocity_history[j])
                          % length

\* a step appends one entry to each history of every car, the position entry from the
\* position before the step; no other operation touches a car
HistoriesAppendOnly ==
    IF StepTaken
    THEN \A i \in 1..Len(cars) :
            \E after \in {CarOfNext(cars[i].id)} :
                /\ after.velocity_history =
                      Append(cars[i].velocity_history, after.velocity)
                /\ after.position_history =
                      Append(cars[i].position_history,
                             (cars[i].position + after.velocity) % length)
    ELSE cars' = cars

HistoriesFollowSteps == []HistoriesAligned /\ [][HistoriesAppendOnly]_vars

\* the last step, in which an incident stopped a car, of a road on which a car has
\* wrapped past cell 0
HistoriesFollowStepsWitness ==
    /\ op = "step"
    /\ time = MaxSteps
    /\ n_cars >= 2
    /\ forced # {}
    /\ \E i \in 1..Len(cars) :
          \E j \in 2..time :
              /\ cars[i].position_history[j] < cars[i].position_history[j - 1]
              /\ cars[i].velocity_history[j] > 0

===========================================================================
